---- MODULE Spec2Model ----
(***************************************************************************)
(* Model of the SchedulifyX JavaScript/TypeScript SDK (src/src/index.ts):  *)
(* the client's configuration, the request dispatcher `request` with its   *)
(* timeout guard and error normalisation, and the resource call-sites      *)
(* that invoke it.                                                         *)
(*                                                                         *)
(* JavaScript values are tagged records.  Objects are sequences of         *)
(* <<key, value>> pairs in insertion order.  Strings that take part in URL *)
(* construction are sequences of tokens in which the URL delimiters        *)
(* ("//", "/", "?", "&", "=", "#") are tokens of their own; every other    *)
(* string is a TLA+ string.                                                *)
(***************************************************************************)
EXTENDS Integers, Sequences, FiniteSets, TLC

(***************************************************************************)
(* Bounds of the model.                                                    *)
(***************************************************************************)
\* identifiers the caller passes are "id1" .. "id<MaxId>"
MaxId == 1
\* the numeric query values the caller passes are 0 and 10 .. 10 + MaxNum - 1
MaxNum == 1

(***************************************************************************)
(* JavaScript values.                                                      *)
(***************************************************************************)
Undefined == [t |-> "undefined"]
JNull == [t |-> "null"]
JNum(n) == [t |-> "num", n |-> n]
JStr(s) == [t |-> "str", s |-> s]
JBool(b) == [t |-> "bool", b |-> b]
JArr(items) == [t |-> "arr", items |-> items]
JObj(pairs) == [t |-> "obj", pairs |-> pairs]

\* ToBoolean, as used by `a || b` and `cond ? x : y`
Truthy(v) ==
  CASE v.t = "undefined" -> FALSE
    [] v.t = "null" -> FALSE
    [] v.t = "bool" -> v.b
    [] v.t = "num" -> v.n # 0
    [] v.t = "str" -> Len(v.s) > 0
    [] OTHER -> TRUE

\* a || b
Or(a, b) == IF Truthy(a) THEN a ELSE b

HasKey(pairs, k) == \E i \in 1..Len(pairs) : pairs[i][1] = k

Lookup(pairs, k) ==
  LET i == CHOOSE j \in 1..Len(pairs) : pairs[j][1] = k IN pairs[i][2]

\* v.k for a value v that is neither null nor undefined: the own property k
\* of an object, undefined for anything else (primitives and arrays have no
\* property named error, message, code or details)
Get(v, k) ==
  IF v.t = "obj" /\ HasKey(v.pairs, k) THEN Lookup(v.pairs, k) ELSE Undefined

\* v?.k
OptGet(v, k) == IF v.t \in {"undefined", "null"} THEN Undefined ELSE Get(v, k)

Digit == <<"0", "1", "2", "3", "4", "5", "6", "7", "8", "9">>

RECURSIVE NumStr(_)
\* the decimal text of a natural number, as String(n) and `${n}` give it
NumStr(n) ==
  IF n < 10 THEN Digit[n + 1] ELSE NumStr(n \div 10) \o Digit[(n % 10) + 1]

\* String(value) for the value kinds a query map holds
String(v) ==
  CASE v.t = "str" -> v.s
    [] v.t = "num" -> NumStr(v.n)
    [] v.t = "bool" -> IF v.b THEN "true" ELSE "false"
    [] v.t = "null" -> "null"
    [] OTHER -> "undefined"

(***************************************************************************)
(* JSON text.  Response bodies are raw texts; response.json() parses them. *)
(***************************************************************************)
BodyEmpty == ""
BodyHtml == "<html>502 Bad Gateway</html>"
BodyNull == "null"
BodyNumber == "42"
BodyEmptyObject == "{}"
BodyData == "{\"data\":{\"id\":\"id1\"}}"
BodyUpload == "{\"data\":{\"uploadUrl\":\"https://uploads.example.com/a.png?sig=1\",\"mediaUrl\":\"https://cdn.example.com/a.png\"}}"
BodyUploadSameHost == "{\"data\":{\"uploadUrl\":\"https://api.schedulifyx.com/media/put/a.png\",\"mediaUrl\":\"https://cdn.example.com/b.png\"}}"
BodyErrFull == "{\"error\":{\"code\":\"not_found\",\"message\":\"Post not found\",\"details\":{\"postId\":\"id1\"}}}"
BodyErrNoDetails == "{\"error\":{\"code\":\"invalid_request\",\"message\":\"Invalid request\"}}"
BodyErrEmptyStrings == "{\"error\":{\"code\":\"\",\"message\":\"\",\"details\":{\"postId\":\"id1\"}}}"
BodyErrEmptyCode == "{\"error\":{\"code\":\"\"}}"
BodyErrCodeOnly == "{\"error\":{\"code\":\"rate_limited\"}}"
BodyErrMessageOnly == "{\"error\":{\"message\":\"Something went wrong\"}}"
BodyErrTimeout == "{\"error\":{\"code\":\"timeout\",\"message\":\"Request timeout\"}}"
BodyErrString == "{\"error\":\"oops\"}"
BodyErrNull == "{\"error\":null}"

\* the body texts a server sends in the model
Bodies ==
  { BodyEmpty, BodyHtml, BodyNull, BodyNumber, BodyEmptyObject, BodyData,
    BodyUpload, BodyUploadSameHost, BodyErrEmptyCode,
    BodyErrFull, BodyErrNoDetails, BodyErrEmptyStrings, BodyErrCodeOnly,
    BodyErrMessageOnly, BodyErrTimeout, BodyErrString, BodyErrNull }

DetailsValue == JObj(<< <<"postId", JStr("id1")>> >>)

ErrorBody(errorValue) == JObj(<< <<"error", errorValue>> >>)

\* JSON.parse of a body text: [ok |-> TRUE, value |-> v], or ok = FALSE when
\* the text is not JSON (a SyntaxError in the program)
JSONParse(text) ==
  CASE text = BodyNull -> [ok |-> TRUE, value |-> JNull]
    [] text = BodyNumber -> [ok |-> TRUE, value |-> JNum(42)]
    [] text = BodyEmptyObject -> [ok |-> TRUE, value |-> JObj(<<>>)]
    [] text = BodyData ->
         [ok |-> TRUE,
          value |-> JObj(<< <<"data", JObj(<< <<"id", JStr("id1")>> >>)>> >>)]
    [] text = BodyUpload ->
         [ok |-> TRUE,
          value |-> JObj(<< <<"data",
                             JObj(<< <<"uploadUrl", JStr("https://uploads.example.com/a.png?sig=1")>>,
                                     <<"mediaUrl", JStr("https://cdn.example.com/a.png")>> >>)>> >>)]
    [] text = BodyUploadSameHost ->
         [ok |-> TRUE,
          value |-> JObj(<< <<"data",
                             JObj(<< <<"uploadUrl", JStr("https://api.schedulifyx.com/media/put/a.png")>>,
                                     <<"mediaUrl", JStr("https://cdn.example.com/b.png")>> >>)>> >>)]
    [] text = BodyErrFull ->
         [ok |-> TRUE,
          value |-> ErrorBody(JObj(<< <<"code", JStr("not_found")>>,
                                      <<"message", JStr("Post not found")>>,
                                      <<"details", DetailsValue>> >>))]
    [] text = BodyErrNoDetails ->
         [ok |-> TRUE,
          value |-> ErrorBody(JObj(<< <<"code", JStr("invalid_request")>>,
                                      <<"message", JStr("Invalid request")>> >>))]
    [] text = BodyErrEmptyStrings ->
         [ok |-> TRUE,
          value |-> ErrorBody(JObj(<< <<"code", JStr("")>>,
                                      <<"message", JStr("")>>,
                                      <<"details", DetailsValue>> >>))]
    [] text = BodyErrEmptyCode ->
         [ok |-> TRUE, value |-> ErrorBody(JObj(<< <<"code", JStr("")>> >>))]
    [] text = BodyErrCodeOnly ->
         [ok |-> TRUE,
          value |-> ErrorBody(JObj(<< <<"code", JStr("rate_limited")>> >>))]
    [] text = BodyErrMessageOnly ->
         [ok |-> TRUE,
          value |-> ErrorBody(JObj(<< <<"message", JStr("Something went wrong")>> >>))]
    [] text = BodyErrTimeout ->
         [ok |-> TRUE,
          value |-> ErrorBody(JObj(<< <<"code", JStr("timeout")>>,
                                      <<"message", JStr("Request timeout")>> >>))]
    [] text = BodyErrString -> [ok |-> TRUE, value |-> ErrorBody(JStr("oops"))]
    [] text = BodyErrNull -> [ok |-> TRUE, value |-> ErrorBody(JNull)]
    [] OTHER -> [ok |-> FALSE, value |-> Undefined]

RECURSIVE JSONStringify(_), StringifyPairs(_, _, _), StringifyItems(_, _)

\* the members of an object from index i on; a member whose value is
\* undefined is left out
StringifyPairs(pairs, i, first) ==
  IF i > Len(pairs) THEN ""
  ELSE IF pairs[i][2].t = "undefined" THEN StringifyPairs(pairs, i + 1, first)
  ELSE (IF first THEN "" ELSE ",") \o "\"" \o pairs[i][1] \o "\":"
         \o JSONStringify(pairs[i][2]) \o StringifyPairs(pairs, i + 1, FALSE)

\* the elements of an array from index i on; undefined is written as null
StringifyItems(items, i) ==
  IF i > Len(items) THEN ""
  ELSE (IF i = 1 THEN "" ELSE ",")
         \o (IF items[i].t = "undefined" THEN "null" ELSE JSONStringify(items[i]))
         \o StringifyItems(items, i + 1)

\* JSON.stringify of a value that is not undefined
JSONStringify(v) ==
  CASE v.t = "null" -> "null"
    [] v.t = "num" -> NumStr(v.n)
    [] v.t = "bool" -> (IF v.b THEN "true" ELSE "false")
    [] v.t = "str" -> "\"" \o v.s \o "\""
    [] v.t = "arr" -> "[" \o StringifyItems(v.items, 1) \o "]"
    [] v.t = "obj" -> "{" \o StringifyPairs(v.pairs, 1, TRUE) \o "}"

(***************************************************************************)
(* URLs: new URL(text), url.searchParams.set and url.toString().           *)
(***************************************************************************)
Schemes == {"https:", "http:"}

\* the tokens that end the authority of a URL
AuthorityEnd == {"//", "/", "?", "#"}

\* index of the first token of toks, at or after position i, that is in the
\* set stops; Len(toks) + 1 when there is none
RECURSIVE FirstIn(_, _, _)
FirstIn(toks, i, stops) ==
  IF i > Len(toks) THEN Len(toks) + 1
  ELSE IF toks[i] \in stops THEN i
  ELSE FirstIn(toks, i + 1, stops)

\* number of slash tokens toks has from position i on, before anything else
RECURSIVE SkipSlashes(_, _)
SkipSlashes(toks, i) ==
  IF i <= Len(toks) /\ toks[i] \in {"//", "/"} THEN SkipSlashes(toks, i + 1) ELSE i

\* percent-encoding of a query key or value that is itself a delimiter
Encode(s) ==
  CASE s = "&" -> "%26"
    [] s = "=" -> "%3D"
    [] s = "#" -> "%23"
    [] s = "?" -> "%3F"
    [] s = "/" -> "%2F"
    [] s = "//" -> "%2F%2F"
    [] OTHER -> s

Decode(s) ==
  CASE s = "%26" -> "&"
    [] s = "%3D" -> "="
    [] s = "%23" -> "#"
    [] s = "%3F" -> "?"
    [] s = "%2F" -> "/"
    [] s = "%2F%2F" -> "//"
    [] OTHER -> s

RECURSIVE DecodeJoin(_)
DecodeJoin(toks) ==
  IF Len(toks) = 0 THEN "" ELSE Decode(Head(toks)) \o DecodeJoin(Tail(toks))

\* one name=value piece of a query string
ParsePiece(piece) ==
  LET eq == FirstIn(piece, 1, {"="}) IN
    << DecodeJoin(SubSeq(piece, 1, eq - 1)),
       DecodeJoin(SubSeq(piece, eq + 1, Len(piece))) >>

RECURSIVE ParseQuery(_)
\* the list of name/value pairs of a query string (without its "?")
ParseQuery(q) ==
  IF Len(q) = 0 THEN <<>>
  ELSE LET amp == FirstIn(q, 1, {"&"})
           piece == SubSeq(q, 1, amp - 1)
           rest == ParseQuery(SubSeq(q, amp + 1, Len(q)))
       IN IF Len(piece) = 0 THEN rest ELSE <<ParsePiece(piece)>> \o rest

RECURSIVE Segments(_, _, _)
\* the segments of a path from token i on, after those of acc: a slash
\* starts a segment, any other token is text of the segment it is in
Segments(toks, i, acc) ==
  IF i > Len(toks) THEN acc
  ELSE IF toks[i] = "/" THEN Segments(toks, i + 1, Append(acc, ""))
  ELSE IF toks[i] = "//" THEN Segments(toks, i + 1, acc \o <<"", "">>)
  ELSE IF Len(acc) = 0 THEN Segments(toks, i + 1, <<toks[i]>>)
  ELSE Segments(toks, i + 1, [acc EXCEPT ![Len(acc)] = @ \o toks[i]])

RECURSIVE RemoveDotSegments(_, _, _)
\* the URL parser's handling of the segments "." and "..": "." is dropped,
\* ".." drops the segment before it as well; either leaves an empty segment
\* behind when it is the last one
RemoveDotSegments(segs, i, acc) ==
  IF i > Len(segs) THEN acc
  ELSE IF segs[i] \in {".", ".."}
  THEN LET kept == IF segs[i] = ".." /\ Len(acc) > 0
                   THEN SubSeq(acc, 1, Len(acc) - 1) ELSE acc
       IN RemoveDotSegments(segs, i + 1, IF i = Len(segs) THEN Append(kept, "") ELSE kept)
  ELSE RemoveDotSegments(segs, i + 1, Append(acc, segs[i]))

RECURSIVE PathTokens(_)
\* the path with the segments segs, as tokens
PathTokens(segs) ==
  IF Len(segs) = 0 THEN <<>>
  ELSE <<"/">> \o (IF Head(segs) = "" THEN <<>> ELSE <<Head(segs)>>) \o PathTokens(Tail(segs))

\* new URL(text) for an absolute http(s) URL: ok = FALSE is the TypeError
\* the constructor throws for a text without scheme or host
ParseURL(text) ==
  IF Len(text) = 0 \/ Head(text) \notin Schemes
  THEN [ok |-> FALSE, scheme |-> "", host |-> "", path |-> <<>>,
        search |-> <<>>, hash |-> <<>>]
  ELSE LET h == SkipSlashes(text, 2)
           pathStart == h + 1
           pathEnd == FirstIn(text, pathStart, {"?", "#"})
           queryEnd == FirstIn(text, pathEnd, {"#"})
           path == SubSeq(text, pathStart, pathEnd - 1)
       IN IF h > Len(text) \/ text[h] \in AuthorityEnd
          THEN [ok |-> FALSE, scheme |-> "", host |-> "", path |-> <<>>,
                search |-> <<>>, hash |-> <<>>]
          ELSE [ok |-> TRUE,
                scheme |-> Head(text),
                host |-> text[h],
                path |-> IF Len(path) = 0 THEN <<"/">>
                         ELSE PathTokens(RemoveDotSegments(Segments(path, 1, <<>>), 1, <<>>)),
                search |-> ParseQuery(SubSeq(text, pathEnd + 1, queryEnd - 1)),
                hash |-> SubSeq(text, queryEnd + 1, Len(text))]

RECURSIVE WithoutKey(_, _)
WithoutKey(pairs, k) ==
  IF Len(pairs) = 0 THEN <<>>
  ELSE IF Head(pairs)[1] = k THEN WithoutKey(Tail(pairs), k)
  ELSE <<Head(pairs)>> \o WithoutKey(Tail(pairs), k)

\* URLSearchParams.set(k, v): the first pair named k gets the value v and
\* the other pairs named k are removed; without such a pair <<k, v>> is
\* appended
SearchSet(search, k, v) ==
  IF HasKey(search, k)
  THEN LET i == CHOOSE j \in 1..Len(search) :
                   search[j][1] = k /\ \A m \in 1..(j - 1) : search[m][1] # k
       IN SubSeq(search, 1, i - 1) \o << <<k, v>> >>
            \o WithoutKey(SubSeq(search, i + 1, Len(search)), k)
  ELSE Append(search, <<k, v>>)

RECURSIVE SerializeQuery(_, _)
SerializeQuery(search, i) ==
  IF i > Len(search) THEN <<>>
  ELSE (IF i = 1 THEN <<>> ELSE <<"&">>)
         \o <<Encode(search[i][1]), "=", Encode(search[i][2])>>
         \o SerializeQuery(search, i + 1)

\* url.toString()
Href(url) ==
  <<url.scheme, "//", url.host>> \o url.path
    \o (IF Len(url.search) = 0 THEN <<>> ELSE <<"?">> \o SerializeQuery(url.search, 1))
    \o (IF Len(url.hash) = 0 THEN <<>> ELSE <<"#">> \o url.hash)

RECURSIVE SetParams_Truthy(_, _, _)
\* SetParams with `if (value)` in place of `if (value !== undefined)`
SetParams_Truthy(search, pairs, i) ==
  IF i > Len(pairs) THEN search
  ELSE IF Truthy(pairs[i][2])
       THEN SetParams_Truthy(SearchSet(search, pairs[i][1], String(pairs[i][2])), pairs, i + 1)
       ELSE SetParams_Truthy(search, pairs, i + 1)

RECURSIVE SetParams(_, _, _)
\* the forEach over Object.entries(queryParams) from entry i on
SetParams(search, pairs, i) ==
  IF i > Len(pairs) THEN search
  ELSE IF pairs[i][2] # Undefined
       THEN SetParams(SearchSet(search, pairs[i][1], String(pairs[i][2])), pairs, i + 1)
       ELSE SetParams(search, pairs, i + 1)

\* BuildUrl with `new URL(endpoint, base)`: the endpoint, an absolute path,
\* replaces the path of the base URL
BuildUrl_Resolve(base, endpoint, queryParams) ==
  LET url == ParseURL(SubSeq(base, 1, 3) \o endpoint) IN
    IF ~url.ok \/ ~Truthy(queryParams) THEN url
    ELSE [url EXCEPT !.search = SetParams(url.search, queryParams.pairs, 1)]

\* the URL the dispatcher builds from the base URL, the endpoint and the
\* query map
BuildUrl(base, endpoint, queryParams) ==
  LET url == ParseURL(base \o endpoint) IN
    IF ~url.ok \/ ~Truthy(queryParams) THEN url
    ELSE [url EXCEPT !.search = SetParams(url.search, queryParams.pairs, 1)]

(***************************************************************************)
(* The client: its configuration and constructor.                          *)
(***************************************************************************)
DefaultBaseUrl == <<"https:", "//", "api.schedulifyx.com">>

DefaultTimeout == 30000

\* new SchedulifyX(config): the fields apiKey, baseUrl and timeout
Constructor(config) ==
  IF config.t = "str"
  THEN [apiKey |-> config.s, baseUrl |-> DefaultBaseUrl, timeout |-> DefaultTimeout]
  ELSE [apiKey |-> Get(config, "apiKey").s,
        baseUrl |-> Or(Get(config, "baseUrl"), JStr(DefaultBaseUrl)).s,
        timeout |-> Or(Get(config, "timeout"), JNum(DefaultTimeout)).n]

\* the configurations the client is constructed from in the model
Configs ==
  { JStr("sk_live_1"),
    JObj(<< <<"apiKey", JStr("sk_live_2")>>,
            <<"baseUrl", JStr(<<"https:", "//", "staging.example.com">>)>>,
            <<"timeout", JNum(5000)>> >>),
    JObj(<< <<"apiKey", JStr("sk_live_3")>>,
            <<"baseUrl", JStr(<<"api.example.com">>)>> >>),
    JObj(<< <<"apiKey", JStr("sk_live_4")>>, <<"timeout", JNum(0)>> >>),
    JObj(<< <<"apiKey", JStr("sk_live_5")>>, <<"baseUrl", JStr(<<>>)>> >>) }

(***************************************************************************)
(* Errors.                                                                 *)
(***************************************************************************)
\* new SchedulifyXError(message, code, status, details)
SchedulifyXError(message, code, status, details) ==
  [cls |-> "SchedulifyXError", isError |-> TRUE, name |-> "SchedulifyXError",
   message |-> message, code |-> code, status |-> status, details |-> details]

\* an error object of the platform (TypeError, SyntaxError, DOMException)
PlatformError(cls, name, message) ==
  [cls |-> cls, isError |-> TRUE, name |-> name, message |-> JStr(message),
   code |-> Undefined, status |-> Undefined, details |-> Undefined]

\* a thrown value that is not an Error object
NonError ==
  [cls |-> "value", isError |-> FALSE, name |-> "", message |-> Undefined,
   code |-> Undefined, status |-> Undefined, details |-> Undefined]

InvalidUrlError == PlatformError("TypeError", "TypeError", "Invalid URL")
AbortError == PlatformError("DOMException", "AbortError", "This operation was aborted")
FetchFailed == PlatformError("TypeError", "TypeError", "fetch failed")
BodyTerminated == PlatformError("TypeError", "TypeError", "terminated")
JsonSyntaxError == PlatformError("SyntaxError", "SyntaxError", "Unexpected end of JSON input")
NullAccessError ==
  PlatformError("TypeError", "TypeError", "Cannot read properties of null (reading 'error')")

\* the TypeError of reading a property of null or undefined
TypeError(message) == PlatformError("TypeError", "TypeError", message)

\* what a failing network exchange rejects fetch with
NetworkErrors == {FetchFailed, NonError}

(***************************************************************************)
(* The dispatcher `request`, piece by piece.                               *)
(***************************************************************************)
\* response.ok
Ok(status) == status \in 200..299

\* clearTimeout that leaves the timer armed
ClearTimeout_Noop(t) == t

\* clearTimeout(timeoutId)
ClearTimeout(t) == IF t = "pending" THEN "cleared" ELSE t

\* the value the try block throws for a non-ok response whose body read
\* gave errorData
ErrorFromResponse(status, errorData) ==
  IF errorData.t \in {"null", "undefined"} THEN NullAccessError
  ELSE LET error == Get(errorData, "error") IN
         SchedulifyXError(
           Or(OptGet(error, "message"), JStr("HTTP " \o NumStr(status))),
           Or(OptGet(error, "code"), JStr("http_error")),
           JNum(status),
           OptGet(error, "details"))

\* ErrorData with `.catch(() => null)` in place of `.catch(() => ({}))`
ErrorData_CatchNull(arrived, text) ==
  IF arrived /\ JSONParse(text).ok THEN JSONParse(text).value ELSE JNull

\* `await response.json().catch(() => ({}))`: the value of errorData, given
\* whether the body arrived and what its text was
ErrorData(arrived, text) ==
  IF arrived /\ JSONParse(text).ok THEN JSONParse(text).value ELSE JObj(<<>>)

\* Catch without the AbortError case
Catch_NoAbortCase(error) ==
  IF error.cls = "SchedulifyXError" THEN error
  ELSE SchedulifyXError(
         IF error.isError THEN error.message ELSE JStr("Network error"),
         JStr("network_error"),
         JNum(0),
         Undefined)

\* the catch block: the error it throws for the caught error
Catch(error) ==
  IF error.cls = "SchedulifyXError" THEN error
  ELSE IF error.isError /\ error.name = "AbortError"
  THEN SchedulifyXError(JStr("Request timeout"), JStr("timeout"), JNum(408), Undefined)
  ELSE SchedulifyXError(
         IF error.isError THEN error.message ELSE JStr("Network error"),
         JStr("network_error"),
         JNum(0),
         Undefined)

\* the headers of a request that carries no credentials
Headers_NoAuth(key) ==
  << <<"Content-Type", "application/json">> >>

\* the headers of the request the dispatcher sends
Headers(key) ==
  << <<"Authorization", "Bearer " \o key>>, <<"Content-Type", "application/json">> >>

\* `body ? JSON.stringify(body) : undefined`
RequestBody(body) == IF Truthy(body) THEN JStr(JSONStringify(body)) ELSE Undefined

Pending == [kind |-> "pending"]
Resolved(value) == [kind |-> "resolved", value |-> value]
Rejected(error) == [kind |-> "rejected", error |-> error]

\* ResultOf that returns the `data` member of the parsed body
ResultOf_Unwrap(arrived, text) ==
  IF ~arrived THEN Rejected(BodyTerminated)
  ELSE IF JSONParse(text).ok THEN Resolved(Get(JSONParse(text).value, "data"))
  ELSE Rejected(JsonSyntaxError)

\* `return response.json()` on an ok response: how the call settles, given
\* whether the body arrived and what its text was
ResultOf(arrived, text) ==
  IF ~arrived THEN Rejected(BodyTerminated)
  ELSE IF JSONParse(text).ok THEN Resolved(JSONParse(text).value)
  ELSE Rejected(JsonSyntaxError)

\* the throw of the non-ok branch, as it leaves the catch block
ErrorOf(arrived, status, text) ==
  Rejected(Catch(ErrorFromResponse(status, ErrorData(arrived, text))))

(***************************************************************************)
(* The resource call-sites.  Each gives the arguments it passes to the     *)
(* dispatcher: this.request(method, endpoint, body, queryParams).  A path  *)
(* parameter is the token sequence of the identifier string; a query or    *)
(* body parameter is a JavaScript value.                                   *)
(***************************************************************************)
Args(site, method, endpoint, body, queryParams) ==
  [site |-> site, method |-> method, endpoint |-> endpoint, body |-> body,
   queryParams |-> queryParams]

posts_list(params) ==
  Args("posts.list", "GET", <<"/", "posts">>,
       Undefined, params)

posts_get(postId) ==
  Args("posts.get", "GET", <<"/", "posts", "/">> \o postId,
       Undefined, Undefined)

posts_create(data) ==
  Args("posts.create", "POST", <<"/", "posts">>,
       data, Undefined)

posts_update(postId, data) ==
  Args("posts.update", "PATCH", <<"/", "posts", "/">> \o postId,
       data, Undefined)

posts_delete(postId) ==
  Args("posts.delete", "DELETE", <<"/", "posts", "/">> \o postId,
       Undefined, Undefined)

\* posts.publish posting to the post itself
posts_publish_NoSuffix(postId) ==
  Args("posts.publish", "POST", <<"/", "posts", "/">> \o postId,
       Undefined, Undefined)

posts_publish(postId) ==
  Args("posts.publish", "POST", <<"/", "posts", "/">> \o postId \o <<"/", "publish">>,
       Undefined, Undefined)

accounts_list(params) ==
  Args("accounts.list", "GET", <<"/", "accounts">>,
       Undefined, params)

accounts_get(accountId) ==
  Args("accounts.get", "GET", <<"/", "accounts", "/">> \o accountId,
       Undefined, Undefined)

accounts_getPinterestBoards(accountId) ==
  Args("accounts.getPinterestBoards", "GET", <<"/", "accounts", "/">> \o accountId \o <<"/", "pinterest-boards">>,
       Undefined, Undefined)

analytics_overview ==
  Args("analytics.overview", "GET", <<"/", "analytics", "/", "overview">>,
       Undefined, Undefined)

analytics_forAccount(accountId, params) ==
  Args("analytics.forAccount", "GET", <<"/", "analytics", "/", "account", "/">> \o accountId,
       Undefined, params)

analytics_list(params) ==
  Args("analytics.list", "GET", <<"/", "analytics">>,
       Undefined, params)

media_getUploadUrl(data) ==
  Args("media.getUploadUrl", "POST", <<"/", "media", "/", "upload-url">>,
       data, Undefined)

usage ==
  Args("usage", "GET", <<"/", "usage">>,
       Undefined, Undefined)

queue_getSlots(accountId) ==
  Args("queue.getSlots", "GET", <<"/", "queue", "/", "slots">>,
       Undefined, JObj(<< <<"accountId", accountId>> >>))

queue_setSlots(data) ==
  Args("queue.setSlots", "PUT", <<"/", "queue", "/", "slots">>,
       data, Undefined)

\* queue.deleteSlots naming the account in the body
queue_deleteSlots_InBody(accountId) ==
  Args("queue.deleteSlots", "DELETE", <<"/", "queue", "/", "slots">>,
       JObj(<< <<"accountId", accountId>> >>), Undefined)

queue_deleteSlots(accountId) ==
  Args("queue.deleteSlots", "DELETE", <<"/", "queue", "/", "slots">>,
       Undefined, JObj(<< <<"accountId", accountId>> >>))

queue_getNextSlot(accountId) ==
  Args("queue.getNextSlot", "GET", <<"/", "queue", "/", "next-slot">>,
       Undefined, JObj(<< <<"accountId", accountId>> >>))

queue_preview(accountId, count) ==
  Args("queue.preview", "GET", <<"/", "queue", "/", "preview">>,
       Undefined, JObj(<< <<"accountId", accountId>>, <<"count", count>> >>))

queue_getAll ==
  Args("queue.getAll", "GET", <<"/", "queue", "/", "all">>,
       Undefined, Undefined)

webhooks_list ==
  Args("webhooks.list", "GET", <<"/", "webhooks">>,
       Undefined, Undefined)

webhooks_get(webhookId) ==
  Args("webhooks.get", "GET", <<"/", "webhooks", "/">> \o webhookId,
       Undefined, Undefined)

webhooks_create(data) ==
  Args("webhooks.create", "POST", <<"/", "webhooks">>,
       data, Undefined)

webhooks_update(webhookId, data) ==
  Args("webhooks.update", "PATCH", <<"/", "webhooks", "/">> \o webhookId,
       data, Undefined)

webhooks_delete(webhookId) ==
  Args("webhooks.delete", "DELETE", <<"/", "webhooks", "/">> \o webhookId,
       Undefined, Undefined)

webhooks_rotateSecret(webhookId) ==
  Args("webhooks.rotateSecret", "POST", <<"/", "webhooks", "/">> \o webhookId \o <<"/", "rotate-secret">>,
       Undefined, Undefined)

\* webhooks.test sending no body when eventType is omitted
webhooks_test_NoBody(webhookId, eventType) ==
  Args("webhooks.test", "POST", <<"/", "webhooks", "/">> \o webhookId \o <<"/", "test">>,
       IF eventType = Undefined THEN Undefined ELSE JObj(<< <<"eventType", eventType>> >>),
       Undefined)

webhooks_test(webhookId, eventType) ==
  Args("webhooks.test", "POST", <<"/", "webhooks", "/">> \o webhookId \o <<"/", "test">>,
       JObj(<< <<"eventType", eventType>> >>), Undefined)

webhooks_getEvents(webhookId, params) ==
  Args("webhooks.getEvents", "GET", <<"/", "webhooks", "/">> \o webhookId \o <<"/", "events">>,
       Undefined, params)

webhooks_getEventTypes ==
  Args("webhooks.getEventTypes", "GET", <<"/", "webhooks", "/", "events", "/", "types">>,
       Undefined, Undefined)

\* tenants.list leaving out the members of params that are 0
tenants_list_DropZero(params) ==
  Args("tenants.list", "GET", <<"/", "tenants">>,
       Undefined,
       IF params = Undefined THEN Undefined
       ELSE JObj(SelectSeq(params.pairs, LAMBDA pair : pair[2] # JNum(0))))

tenants_list(params) ==
  Args("tenants.list", "GET", <<"/", "tenants">>,
       Undefined, params)

tenants_get(tenantId) ==
  Args("tenants.get", "GET", <<"/", "tenants", "/">> \o tenantId,
       Undefined, Undefined)

tenants_create(data) ==
  Args("tenants.create", "POST", <<"/", "tenants">>,
       data, Undefined)

tenants_update(tenantId, data) ==
  Args("tenants.update", "PATCH", <<"/", "tenants", "/">> \o tenantId,
       data, Undefined)

tenants_delete(tenantId) ==
  Args("tenants.delete", "DELETE", <<"/", "tenants", "/">> \o tenantId,
       Undefined, Undefined)

tenants_getConnectUrl(tenantId, platform) ==
  Args("tenants.getConnectUrl", "GET", <<"/", "tenants", "/">> \o tenantId \o <<"/", "connect", "/">> \o platform,
       Undefined, Undefined)

tenants_listAccounts(tenantId) ==
  Args("tenants.listAccounts", "GET", <<"/", "tenants", "/">> \o tenantId \o <<"/", "accounts">>,
       Undefined, Undefined)

tenants_disconnectAccount(tenantId, accountId) ==
  Args("tenants.disconnectAccount", "DELETE", <<"/", "tenants", "/">> \o tenantId \o <<"/", "accounts", "/">> \o accountId,
       Undefined, Undefined)

tenants_connectBluesky(tenantId, data) ==
  Args("tenants.connectBluesky", "POST", <<"/", "tenants", "/">> \o tenantId \o <<"/", "connect", "/", "bluesky">>,
       data, Undefined)

tenants_connectMastodon(tenantId, data) ==
  Args("tenants.connectMastodon", "POST", <<"/", "tenants", "/">> \o tenantId \o <<"/", "connect", "/", "mastodon">>,
       data, Undefined)

(***************************************************************************)
(* The arguments callers pass in the model.                                *)
(***************************************************************************)
IdStr(i) == "id" \o NumStr(i)

\* identifier strings
IdStrs == {IdStr(i) : i \in 1..MaxId}

\* an identifier as it is spliced into a path template
PathIds == {<<s>> : s \in IdStrs}

\* an identifier as a query or body value
IdValues == {JStr(s) : s \in IdStrs}

\* an optional numeric argument (limit, offset, count, days)
NumArgs == {Undefined, JNum(0)} \cup {JNum(9 + i) : i \in 1..MaxNum}

RECURSIVE Maps(_)
\* the objects over the keys of spec, a sequence of <<key, values>>: each
\* key is either not a property of the object or has one of its values
Maps(spec) ==
  IF Len(spec) = 0 THEN {<<>>}
  ELSE LET rest == Maps(Tail(spec)) IN
         rest \cup {<< <<Head(spec)[1], v>> >> \o m : v \in Head(spec)[2], m \in rest}

\* an optional params argument over the keys of spec
Params(spec) == {Undefined} \cup {JObj(m) : m \in Maps(spec)}

PostData ==
  JObj(<< <<"content", JStr("hi")>>,
          <<"accountIds", JArr(<<JStr("id1")>>)>>,
          <<"publishNow", JBool(TRUE)>> >>)

PostPatch == JObj(<< <<"content", JStr("edited")>> >>)

UploadData ==
  JObj(<< <<"filename", JStr("a.png")>>, <<"contentType", JStr("image/png")>> >>)

SlotsData ==
  JObj(<< <<"accountId", JStr("id1")>>,
          <<"timezone", JStr("UTC")>>,
          <<"slots", JArr(<< JObj(<< <<"dayOfWeek", JNum(0)>>,
                                     <<"time", JStr("09:00")>> >>) >>)>> >>)

WebhookData ==
  JObj(<< <<"name", JStr("hook")>>,
          <<"url", JStr("https://example.com/hook")>>,
          <<"events", JArr(<<JStr("post.published")>>)>> >>)

WebhookPatch == JObj(<< <<"isActive", JBool(FALSE)>> >>)

TenantData == JObj(<< <<"externalId", JStr("ext1")>> >>)

TenantPatch == JObj(<< <<"name", JStr("Acme")>> >>)

BlueskyData ==
  JObj(<< <<"identifier", JStr("user.bsky.social")>>,
          <<"appPassword", JStr("xxxx")>> >>)

MastodonData ==
  JObj(<< <<"instance", JStr("mastodon.social")>>, <<"accessToken", JStr("tok")>> >>)

\* the dispatcher called as such: this.request(method, endpoint, body,
\* queryParams), whose body parameter is of type unknown
request(method, endpoint, body, queryParams) ==
  Args("request", method, endpoint, body, queryParams)

\* the bodies other than objects and arrays that JavaScript takes for false
FalsyBodies == {JNull, JNum(0), JStr(""), JBool(FALSE)}

\* every call of a dispatcher-backed method the model makes, as the
\* arguments that reach the dispatcher
\* a call of a method of the client: the method, the arguments the caller
\* gave it and the arguments the method gives the dispatcher
Call(params, a) == [site |-> a.site, params |-> params, args |-> a]

Invocations ==
  {Call(<<p>>, posts_list(p)) :
     p \in Params(<< <<"status", {JStr("draft")}>>, <<"accountId", IdValues>>,
                     <<"limit", NumArgs>>, <<"offset", NumArgs>> >>)}
  \cup {Call(<<id>>, posts_get(id)) : id \in PathIds}
  \cup {Call(<<PostData>>, posts_create(PostData))}
  \cup {Call(<<id, PostPatch>>, posts_update(id, PostPatch)) : id \in PathIds}
  \cup {Call(<<id>>, posts_delete(id)) : id \in PathIds}
  \cup {Call(<<id>>, posts_publish(id)) : id \in PathIds}
  \cup {Call(<<p>>, accounts_list(p)) :
          p \in Params(<< <<"platform", {JStr("twitter")}>>,
                          <<"limit", NumArgs>>, <<"offset", NumArgs>> >>)}
  \cup {Call(<<id>>, accounts_get(id)) : id \in PathIds}
  \cup {Call(<<id>>, accounts_getPinterestBoards(id)) : id \in PathIds}
  \cup {Call(<<>>, analytics_overview)}
  \cup {Call(<<id, p>>, analytics_forAccount(id, p)) :
          id \in PathIds, p \in Params(<< <<"days", NumArgs>> >>)}
  \cup {Call(<<p>>, analytics_list(p)) :
          p \in Params(<< <<"accountId", IdValues>>,
                          <<"startDate", {JStr("2024-01-01")}>>,
                          <<"endDate", {JStr("2024-01-31")}>> >>)}
  \cup {Call(<<UploadData>>, media_getUploadUrl(UploadData))}
  \cup {Call(<<>>, usage)}
  \cup {Call(<<a>>, queue_getSlots(a)) : a \in IdValues}
  \cup {Call(<<SlotsData>>, queue_setSlots(SlotsData))}
  \cup {Call(<<a>>, queue_deleteSlots(a)) : a \in IdValues}
  \cup {Call(<<a>>, queue_getNextSlot(a)) : a \in IdValues}
  \cup {Call(<<a, n>>, queue_preview(a, n)) : a \in IdValues, n \in NumArgs}
  \cup {Call(<<>>, queue_getAll)}
  \cup {Call(<<>>, webhooks_list)}
  \cup {Call(<<id>>, webhooks_get(id)) : id \in PathIds}
  \cup {Call(<<WebhookData>>, webhooks_create(WebhookData))}
  \cup {Call(<<id, WebhookPatch>>, webhooks_update(id, WebhookPatch)) : id \in PathIds}
  \cup {Call(<<id>>, webhooks_delete(id)) : id \in PathIds}
  \cup {Call(<<id>>, webhooks_rotateSecret(id)) : id \in PathIds}
  \cup {Call(<<id, e>>, webhooks_test(id, e)) : id \in PathIds, e \in {Undefined, JStr("post.published"), JStr("")}}
  \cup {Call(<<id, p>>, webhooks_getEvents(id, p)) :
          id \in PathIds,
          p \in Params(<< <<"limit", NumArgs>>, <<"offset", NumArgs>> >>)}
  \cup {Call(<<>>, webhooks_getEventTypes)}
  \cup {Call(<<p>>, tenants_list(p)) :
          p \in Params(<< <<"limit", NumArgs>>, <<"offset", NumArgs>>,
                          <<"search", {JStr(""), JStr("acme")}>> >>)}
  \cup {Call(<<id>>, tenants_get(id)) : id \in PathIds}
  \cup {Call(<<TenantData>>, tenants_create(TenantData))}
  \cup {Call(<<id, TenantPatch>>, tenants_update(id, TenantPatch)) : id \in PathIds}
  \cup {Call(<<id>>, tenants_delete(id)) : id \in PathIds}
  \cup {Call(<<id, <<"twitter">>>>, tenants_getConnectUrl(id, <<"twitter">>)) : id \in PathIds}
  \cup {Call(<<id>>, tenants_listAccounts(id)) : id \in PathIds}
  \cup {Call(<<id, a>>, tenants_disconnectAccount(id, a)) : id \in PathIds, a \in PathIds}
  \cup {Call(<<id, BlueskyData>>, tenants_connectBluesky(id, BlueskyData)) : id \in PathIds}
  \cup {Call(<<id, MastodonData>>, tenants_connectMastodon(id, MastodonData)) : id \in PathIds}
  \cup {Call(<<"POST", <<"/", "posts">>, b, Undefined>>, request("POST", <<"/", "posts">>, b, Undefined)) : b \in FalsyBodies}

\* the statuses a server answers with in the model
Statuses == {200, 404, 408}

\* the arguments of media.upload: the content of the file, its name and
\* its media type
Files == {"<bytes of a.png>"}
Filenames == {"a.png"}
ContentTypes == {"image/png", "video/mp4"}

\* the statuses the upload target answers the PUT with
PutStatuses == {200, 403}

(***************************************************************************)
(* State.                                                                  *)
(***************************************************************************)
VARIABLES
  given,      \* the argument the constructor was called with
  input,      \* the method the caller called and the arguments it gave
  apiKey,     \* this.apiKey
  baseUrl,    \* this.baseUrl, a token sequence
  timeout,    \* this.timeout
  pc,         \* where the call is: "idle", "fetching" (awaiting fetch),
              \* "readingError" (awaiting response.json() of a non-ok
              \* response), "readingResult" (the returned response.json()
              \* is pending), "done" (the call's promise has settled)
  args,       \* the arguments of the dispatcher call
  timer,      \* timeoutId: "unset", "pending", "fired" or "cleared"
  aborted,    \* controller.signal.aborted
  sent,       \* the requests handed to fetch, in order
  net,        \* the network exchange: "none", "inflight" (no response
              \* yet), "streaming" (headers in, body not), "complete",
              \* "failed" or "aborted"
  response,   \* the response whose headers arrived: status and body text
  outcome,    \* how the call's promise settled
  upload,     \* the run of media.upload, if there is one: where it is, its
              \* arguments, the requests it handed to fetch itself, the
              \* status the upload target answered with, and how its promise
              \* settled
  calls       \* the calls issued side by side on the one client, each with
              \* the locals of its own run of the dispatcher: pc, args,
              \* timer, aborted, sent, net, response and outcome as above

vars ==
  <<given, input, apiKey, baseUrl, timeout, pc, args, timer, aborted, sent, net, response, outcome,
    upload, calls>>

config == <<given, apiKey, baseUrl, timeout>>

NoArgs == Args("", "", <<>>, Undefined, Undefined)

NoInput == [site |-> "", params |-> <<>>]

NoResponse == [status |-> 0, body |-> ""]

\* the number of calls issued side by side
NumCalls == 2

NoCall ==
  [pc |-> "idle", args |-> NoArgs, timer |-> "unset", aborted |-> FALSE,
   sent |-> <<>>, net |-> "none", response |-> NoResponse, outcome |-> Pending]

NoUpload ==
  [pc |-> "none", file |-> "", filename |-> "", contentType |-> "",
   sent |-> <<>>, status |-> 0, outcome |-> Pending]

\* the client as one of the configurations of the set makes it, with no
\* call issued yet
InitWith(configs) ==
  /\ \E c \in configs :
       /\ given = c
       /\ apiKey = Constructor(c).apiKey
       /\ baseUrl = Constructor(c).baseUrl
       /\ timeout = Constructor(c).timeout
  /\ input = NoInput
  /\ pc = "idle"
  /\ args = NoArgs
  /\ timer = "unset"
  /\ aborted = FALSE
  /\ sent = <<>>
  /\ net = "none"
  /\ response = NoResponse
  /\ outcome = Pending
  /\ upload = NoUpload
  /\ calls = [i \in 1..NumCalls |-> NoCall]

Init == InitWith(Configs)

(***************************************************************************)
(* Actions.                                                                *)
(***************************************************************************)
\* The dispatcher is called and runs to its first await: it builds the URL
\* (new URL throws outside the try block), arms the timer and hands the
\* request to fetch.
Dispatch(a) ==
  /\ pc = "idle"
  /\ args' = a
  /\ LET url == BuildUrl(baseUrl, a.endpoint, a.queryParams) IN
       IF ~url.ok
       THEN /\ pc' = "done"
            /\ outcome' = Rejected(InvalidUrlError)
            /\ UNCHANGED <<timer, sent, net>>
       ELSE /\ pc' = "fetching"
            /\ timer' = "pending"
            /\ sent' = Append(sent, [method |-> a.method,
                                     url |-> Href(url),
                                     headers |-> Headers(apiKey),
                                     body |-> RequestBody(a.body)])
            /\ net' = "inflight"
            /\ UNCHANGED outcome
  /\ UNCHANGED <<config, calls, aborted, response>>

\* A call-site calls the dispatcher and returns its promise.
Request(c) ==
  /\ Dispatch(c.args)
  /\ input' = [site |-> c.site, params |-> c.params]
  /\ UNCHANGED upload

\* ServerRespond that leaves the timer armed while the body is read
ServerRespond_KeepTimer(status, body) ==
  /\ pc = "fetching"
  /\ net = "inflight"
  /\ response' = [status |-> status, body |-> body]
  /\ net' = "streaming"
  /\ timer' = timer
  /\ pc' = IF Ok(status) THEN "readingResult" ELSE "readingError"
  /\ UNCHANGED <<config, input, upload, calls, args, aborted, sent, outcome>>

\* The response headers arrive: fetch resolves and the dispatcher goes on
\* to its next await, clearing the timer and starting to read the body.
ServerRespond(status, body) ==
  /\ pc = "fetching"
  /\ net = "inflight"
  /\ response' = [status |-> status, body |-> body]
  /\ net' = "streaming"
  /\ timer' = ClearTimeout(timer)
  /\ pc' = IF Ok(status) THEN "readingResult" ELSE "readingError"
  /\ UNCHANGED <<config, input, upload, calls, args, aborted, sent, outcome>>

\* NetworkFail that sends the request once more before it gives up
NetworkFail_Retry(error) ==
  /\ pc = "fetching"
  /\ net = "inflight"
  /\ IF Len(sent) < 2
     THEN /\ sent' = Append(sent, sent[1])
          /\ UNCHANGED <<net, timer, outcome, pc>>
     ELSE /\ net' = "failed"
          /\ timer' = ClearTimeout(timer)
          /\ outcome' = Rejected(Catch(error))
          /\ pc' = "done"
          /\ UNCHANGED sent
  /\ UNCHANGED <<config, input, upload, calls, args, aborted, response>>

\* The exchange fails before any response: fetch rejects and the catch
\* block runs.
NetworkFail(error) ==
  /\ pc = "fetching"
  /\ net = "inflight"
  /\ net' = "failed"
  /\ timer' = ClearTimeout(timer)
  /\ outcome' = Rejected(Catch(error))
  /\ pc' = "done"
  /\ UNCHANGED <<config, input, upload, calls, args, aborted, sent, response>>

\* The timer fires: its callback aborts the controller, which rejects
\* whatever the exchange is still waiting for with an AbortError.
TimerFire ==
  /\ timer = "pending"
  /\ timer' = "fired"
  /\ aborted' = TRUE
  /\ IF pc = "fetching"
     THEN /\ net' = "aborted"
          /\ outcome' = Rejected(Catch(AbortError))
          /\ pc' = "done"
     ELSE IF pc = "readingError"
     THEN /\ net' = "aborted"
          /\ outcome' = ErrorOf(FALSE, response.status, response.body)
          /\ pc' = "done"
     ELSE IF pc = "readingResult"
     THEN /\ net' = "aborted"
          /\ outcome' = Rejected(AbortError)
          /\ pc' = "done"
     ELSE UNCHANGED <<net, outcome, pc>>
  /\ UNCHANGED <<config, input, upload, calls, args, sent, response>>

\* The body arrives in full: response.json() settles with the parse of its
\* text.
BodyArrive ==
  /\ pc \in {"readingError", "readingResult"}
  /\ net = "streaming"
  /\ net' = "complete"
  /\ outcome' = IF pc = "readingError"
                THEN ErrorOf(TRUE, response.status, response.body)
                ELSE ResultOf(TRUE, response.body)
  /\ timer' = IF pc = "readingError" THEN ClearTimeout(timer) ELSE timer
  /\ pc' = "done"
  /\ UNCHANGED <<config, input, upload, calls, args, aborted, sent, response>>

\* The connection breaks while the body is read: response.json() rejects.
BodyFail ==
  /\ pc \in {"readingError", "readingResult"}
  /\ net = "streaming"
  /\ net' = "failed"
  /\ outcome' = IF pc = "readingError"
                THEN ErrorOf(FALSE, response.status, response.body)
                ELSE ResultOf(FALSE, response.body)
  /\ timer' = IF pc = "readingError" THEN ClearTimeout(timer) ELSE timer
  /\ pc' = "done"
  /\ UNCHANGED <<config, input, upload, calls, args, aborted, sent, response>>

\* media.upload runs to its first await: it calls media.getUploadUrl with
\* { filename, contentType }.
Upload(file, filename, contentType) ==
  /\ upload.pc = "none"
  /\ Dispatch(media_getUploadUrl(JObj(<< <<"filename", JStr(filename)>>,
                                          <<"contentType", JStr(contentType)>> >>)))
  /\ upload' = [upload EXCEPT !.pc = "awaitingUrl", !.file = file,
                              !.filename = filename, !.contentType = contentType]
  /\ input' = [site |-> "media.upload", params |-> <<file, filename, contentType>>]

\* UploadResume sending the PUT with the headers of an API request
UploadResume_WithAuth ==
  /\ upload.pc = "awaitingUrl"
  /\ pc = "done"
  /\ upload' =
       IF outcome.kind = "rejected"
       THEN [upload EXCEPT !.pc = "done", !.outcome = outcome]
       ELSE IF outcome.value.t \in {"null", "undefined"}
       THEN [upload EXCEPT !.pc = "done",
               !.outcome = Rejected(TypeError("Cannot destructure property 'data'"))]
       ELSE IF Get(outcome.value, "data").t \in {"null", "undefined"}
       THEN [upload EXCEPT !.pc = "done",
               !.outcome = Rejected(TypeError("Cannot read properties of undefined (reading 'uploadUrl')"))]
       ELSE [upload EXCEPT !.pc = "putting",
               !.sent = Append(@, [method |-> "PUT",
                                   url |-> Get(Get(outcome.value, "data"), "uploadUrl"),
                                   headers |-> << <<"Authorization", "Bearer " \o apiKey>>,
                                                  <<"Content-Type", upload.contentType>> >>,
                                   body |-> upload.file])]
  /\ UNCHANGED <<config, input, calls, pc, args, timer, aborted, sent, net, response, outcome>>

\* The promise of media.getUploadUrl has settled and media.upload goes on:
\* a rejection is thrown on as it is; otherwise `data` is taken out of the
\* value, data.uploadUrl is read and the PUT is handed to fetch, the second
\* await.  There is no try block, no timer and no signal.
UploadResume ==
  /\ upload.pc = "awaitingUrl"
  /\ pc = "done"
  /\ upload' =
       IF outcome.kind = "rejected"
       THEN [upload EXCEPT !.pc = "done", !.outcome = outcome]
       ELSE IF outcome.value.t \in {"null", "undefined"}
       THEN [upload EXCEPT !.pc = "done",
               !.outcome = Rejected(TypeError("Cannot destructure property 'data'"))]
       ELSE IF Get(outcome.value, "data").t \in {"null", "undefined"}
       THEN [upload EXCEPT !.pc = "done",
               !.outcome = Rejected(TypeError("Cannot read properties of undefined (reading 'uploadUrl')"))]
       ELSE [upload EXCEPT !.pc = "putting",
               !.sent = Append(@, [method |-> "PUT",
                                   url |-> Get(Get(outcome.value, "data"), "uploadUrl"),
                                   headers |-> << <<"Content-Type", upload.contentType>> >>,
                                   body |-> upload.file])]
  /\ UNCHANGED <<config, input, calls, pc, args, timer, aborted, sent, net, response, outcome>>

\* media.upload returning the upload target's URL instead of the media URL
PutRespond_UploadUrl(status) ==
  /\ upload.pc = "putting"
  /\ upload' = [upload EXCEPT !.pc = "done", !.status = status,
                              !.outcome = Resolved(Get(Get(outcome.value, "data"), "uploadUrl"))]
  /\ UNCHANGED <<config, input, calls, pc, args, timer, aborted, sent, net, response, outcome>>

\* The upload target answers the PUT: fetch resolves whatever the status,
\* the response is not looked at and media.upload returns data.mediaUrl.
PutRespond(status) ==
  /\ upload.pc = "putting"
  /\ upload' = [upload EXCEPT !.pc = "done", !.status = status,
                              !.outcome = Resolved(Get(Get(outcome.value, "data"), "mediaUrl"))]
  /\ UNCHANGED <<config, input, calls, pc, args, timer, aborted, sent, net, response, outcome>>

\* The PUT fails on the network: fetch rejects and media.upload rejects
\* with the same value.
PutFail(error) ==
  /\ upload.pc = "putting"
  /\ upload' = [upload EXCEPT !.pc = "done", !.outcome = Rejected(error)]
  /\ UNCHANGED <<config, input, calls, pc, args, timer, aborted, sent, net, response, outcome>>

Next ==
  \/ \E c \in Invocations : Request(c)
  \/ \E file \in Files, filename \in Filenames, contentType \in ContentTypes :
       Upload(file, filename, contentType)
  \/ UploadResume
  \/ \E status \in PutStatuses : PutRespond(status)
  \/ \E error \in NetworkErrors : PutFail(error)
  \/ \E status \in Statuses, body \in Bodies : ServerRespond(status, body)
  \/ \E error \in NetworkErrors : NetworkFail(error)
  \/ TimerFire
  \/ BodyArrive
  \/ BodyFail

Spec == Init /\ [][Next]_vars

(***************************************************************************)
(* Calls side by side.  Every run of the dispatcher has its own url,       *)
(* controller and timeoutId (locals of `request`); the runs share the      *)
(* fields of the client, which no run writes.  Call i of the client steps  *)
(* as the single call above does.                                          *)
(***************************************************************************)
single == <<input, pc, args, timer, aborted, sent, net, response, outcome, upload>>

ConcInvocations == {usage, posts_create(PostData)}

ConcBodies == {BodyData, BodyErrFull}

ConcRequest(i, a) ==
  /\ calls[i].pc = "idle"
  /\ LET url == BuildUrl(baseUrl, a.endpoint, a.queryParams) IN
       calls' = [calls EXCEPT ![i] =
         IF ~url.ok
         THEN [@ EXCEPT !.args = a, !.pc = "done",
                        !.outcome = Rejected(InvalidUrlError)]
         ELSE [@ EXCEPT !.args = a, !.pc = "fetching", !.timer = "pending",
                        !.sent = Append(@, [method |-> a.method,
                                            url |-> Href(url),
                                            headers |-> Headers(apiKey),
                                            body |-> RequestBody(a.body)]),
                        !.net = "inflight"]]
  /\ UNCHANGED <<config, single>>

ConcServerRespond(i, status, body) ==
  /\ calls[i].pc = "fetching"
  /\ calls[i].net = "inflight"
  /\ calls' = [calls EXCEPT ![i] =
       [@ EXCEPT !.response = [status |-> status, body |-> body],
                 !.net = "streaming",
                 !.timer = ClearTimeout(@),
                 !.pc = IF Ok(status) THEN "readingResult" ELSE "readingError"]]
  /\ UNCHANGED <<config, single>>

\* ConcNetworkFail that moves the client to a fallback host for later calls
ConcNetworkFail_Failover(i, error) ==
  /\ calls[i].pc = "fetching"
  /\ calls[i].net = "inflight"
  /\ calls' = [calls EXCEPT ![i] =
       [@ EXCEPT !.net = "failed", !.timer = ClearTimeout(@),
                 !.outcome = Rejected(Catch(error)), !.pc = "done"]]
  /\ baseUrl' = <<"https:", "//", "fallback.example.com">>
  /\ UNCHANGED <<given, apiKey, timeout, single>>

ConcNetworkFail(i, error) ==
  /\ calls[i].pc = "fetching"
  /\ calls[i].net = "inflight"
  /\ calls' = [calls EXCEPT ![i] =
       [@ EXCEPT !.net = "failed", !.timer = ClearTimeout(@),
                 !.outcome = Rejected(Catch(error)), !.pc = "done"]]
  /\ UNCHANGED <<config, single>>

\* one controller for all the calls of the client: the timer of call i
\* aborts every exchange that is waiting for its response
ConcTimerFire_SharedController(i) ==
  /\ calls[i].timer = "pending"
  /\ calls' = [j \in 1..NumCalls |->
       IF calls[j].pc = "fetching"
       THEN [calls[j] EXCEPT !.timer = IF j = i THEN "fired" ELSE ClearTimeout(@),
                             !.aborted = TRUE, !.net = "aborted",
                             !.outcome = Rejected(Catch(AbortError)), !.pc = "done"]
       ELSE calls[j]]
  /\ UNCHANGED <<config, single>>

\* The timer of call i fires: it aborts the controller of call i.  The
\* timer is pending only while the call awaits fetch.
ConcTimerFire(i) ==
  /\ calls[i].timer = "pending"
  /\ calls' = [calls EXCEPT ![i] =
       IF @.pc = "fetching"
       THEN [@ EXCEPT !.timer = "fired", !.aborted = TRUE, !.net = "aborted",
                      !.outcome = Rejected(Catch(AbortError)), !.pc = "done"]
       ELSE [@ EXCEPT !.timer = "fired", !.aborted = TRUE]]
  /\ UNCHANGED <<config, single>>

ConcBodyArrive(i) ==
  /\ calls[i].pc \in {"readingError", "readingResult"}
  /\ calls[i].net = "streaming"
  /\ calls' = [calls EXCEPT ![i] =
       [@ EXCEPT !.net = "complete",
                 !.outcome = IF calls[i].pc = "readingError"
                             THEN ErrorOf(TRUE, calls[i].response.status, calls[i].response.body)
                             ELSE ResultOf(TRUE, calls[i].response.body),
                 !.pc = "done"]]
  /\ UNCHANGED <<config, single>>

ConcBodyFail(i) ==
  /\ calls[i].pc \in {"readingError", "readingResult"}
  /\ calls[i].net = "streaming"
  /\ calls' = [calls EXCEPT ![i] =
       [@ EXCEPT !.net = "failed",
                 !.outcome = IF calls[i].pc = "readingError"
                             THEN ErrorOf(FALSE, calls[i].response.status, calls[i].response.body)
                             ELSE ResultOf(FALSE, calls[i].response.body),
                 !.pc = "done"]]
  /\ UNCHANGED <<config, single>>

NextConc ==
  \/ \E i \in 1..NumCalls, a \in ConcInvocations : ConcRequest(i, a)
  \/ \E i \in 1..NumCalls, status \in Statuses, body \in ConcBodies :
       ConcServerRespond(i, status, body)
  \/ \E i \in 1..NumCalls, error \in NetworkErrors : ConcNetworkFail(i, error)
  \/ \E i \in 1..NumCalls : ConcTimerFire(i)
  \/ \E i \in 1..NumCalls : ConcBodyArrive(i)
  \/ \E i \in 1..NumCalls : ConcBodyFail(i)

SpecConc == Init /\ [][NextConc]_vars

(***************************************************************************)
(* The target of a request.  `new URL(baseUrl + endpoint)` is applied to   *)
(* base URLs with and without a path and a trailing slash, and to          *)
(* endpoints made of identifiers that hold URL delimiters themselves.      *)
(***************************************************************************)
UrlBases ==
  { <<"https:", "//", "api.example.com">>,
    <<"https:", "//", "api.example.com", "/">>,
    <<"https:", "//", "api.example.com", "/", "v1">>,
    <<"http:", "//", "localhost:3000", "/", "api", "/", "v1", "/">> }

UrlConfigs ==
  {JStr("sk_live_1")}
  \cup {JObj(<< <<"apiKey", JStr("sk_live_6")>>, <<"baseUrl", JStr(b)>> >>) : b \in UrlBases}

\* identifier strings as a caller may pass them: plain ones, and ones with
\* a slash, a dot segment, a "?" or a "#" in them
UrlIds ==
  PathIds \cup { <<"id1", "/", "publish">>,
                 <<"..", "/", "accounts">>,
                 <<"..">>,
                 <<"id1", "?", "limit", "=", "5">>,
                 <<"id1", "#", "top">> }

UrlInvocations ==
  {Call(<<p>>, posts_list(p)) :
     p \in Params(<< <<"limit", NumArgs>>, <<"offset", NumArgs>> >>)}
  \cup {Call(<<>>, usage)}
  \cup {Call(<<id>>, posts_get(id)) : id \in UrlIds}
  \cup {Call(<<id, PostPatch>>, posts_update(id, PostPatch)) : id \in UrlIds}
  \cup {Call(<<id>>, posts_delete(id)) : id \in UrlIds}
  \cup {Call(<<id>>, posts_publish(id)) : id \in UrlIds}
  \cup {Call(<<id>>, accounts_get(id)) : id \in UrlIds}
  \cup {Call(<<id>>, webhooks_get(id)) : id \in UrlIds}
  \cup {Call(<<id>>, webhooks_delete(id)) : id \in UrlIds}
  \cup {Call(<<id, p>>, webhooks_getEvents(id, p)) :
          id \in UrlIds, p \in Params(<< <<"limit", NumArgs>> >>)}
  \cup {Call(<<id>>, tenants_get(id)) : id \in UrlIds}
  \cup {Call(<<id, platform>>, tenants_getConnectUrl(id, platform)) :
          id \in UrlIds, platform \in {<<"twitter">>, <<"..", "/", "..", "/", "accounts">>}}
  \cup {Call(<<id, a>>, tenants_disconnectAccount(id, a)) : id \in UrlIds, a \in PathIds}

InitUrl == InitWith(UrlConfigs)

NextUrl == \E c \in UrlInvocations : Request(c)

SpecUrl == InitUrl /\ [][NextUrl]_vars

\* The timer is a timer of the platform: once armed it fires unless it is
\* cleared.  Nothing obliges the server or the network to act.
FairSpec == Spec /\ WF_vars(TimerFire)

(***************************************************************************)
(* Properties.                                                             *)
(***************************************************************************)
\* the call has settled with an error
Failed == pc = "done" /\ outcome.kind = "rejected"

\* a response arrived (its headers at least)
Responded == response # NoResponse

\* the member k of the error object of the response body; undefined when
\* the body has no such thing
BodyErrorField(k) ==
  LET parsed == JSONParse(response.body) IN
    IF parsed.ok /\ parsed.value.t \notin {"null", "undefined"}
    THEN OptGet(Get(parsed.value, "error"), k)
    ELSE Undefined

\* the body of the response is a structured error {error:{code,message,..}}
StructuredErrorBody ==
  LET parsed == JSONParse(response.body) IN
    /\ parsed.ok
    /\ parsed.value.t = "obj"
    /\ Get(parsed.value, "error").t = "obj"
    /\ HasKey(Get(parsed.value, "error").pairs, "code")
    /\ HasKey(Get(parsed.value, "error").pairs, "message")

\* "HTTP <status>" for the statuses of the model, spelled out
HttpMessage(status) ==
  CASE status = 404 -> "HTTP 404"
    [] status = 408 -> "HTTP 408"
    [] status = 200 -> "HTTP 200"

\* C1: every way a dispatcher-backed call fails rejects with a
\* SchedulifyXError carrying message, code and status; no other error kind
\* reaches the caller.
C1_OnlySchedulifyXError ==
  Failed =>
    /\ outcome.error.cls = "SchedulifyXError"
    /\ outcome.error.message # Undefined
    /\ outcome.error.code # Undefined
    /\ outcome.error.status # Undefined

\* C2: when the timer fires while the request still waits for its response,
\* the request is aborted and the call rejects with code "timeout" and
\* status 408; once aborted, the call does nothing more on the network.
C2_TimeoutAborts ==
  [][/\ (timer = "pending" /\ net = "inflight" /\ timer' = "fired") =>
          /\ aborted'
          /\ net' = "aborted"
          /\ pc' = "done"
          /\ outcome'.kind = "rejected"
          /\ outcome'.error.cls = "SchedulifyXError"
          /\ outcome'.error.code = JStr("timeout")
          /\ outcome'.error.status = JNum(408)
     /\ net = "aborted" => UNCHANGED <<sent, net, response, pc, outcome>>]_vars

C2_Witness ==
  /\ timer = "fired"
  /\ net = "aborted"
  /\ Len(sent) = 1
  /\ Failed
  /\ outcome.error.code = JStr("timeout")

\* C3: every dispatcher call eventually settles, given only that the timer
\* eventually fires: also when headers arrive in time and the body never
\* finishes arriving.
C3_EveryCallSettles == (pc \in {"fetching", "readingError", "readingResult"}) ~> (pc = "done")

\* C4: a non-2xx response with a body {error:{code,message,details}} rejects
\* with code, message and details equal to the body's fields, whatever their
\* values, and with the response's status.
C4_StructuredErrorExact ==
  (pc = "done" /\ net = "complete" /\ ~Ok(response.status) /\ StructuredErrorBody) =>
    /\ outcome.kind = "rejected"
    /\ outcome.error.cls = "SchedulifyXError"
    /\ outcome.error.code = BodyErrorField("code")
    /\ outcome.error.message = BodyErrorField("message")
    /\ outcome.error.details = BodyErrorField("details")
    /\ outcome.error.status = JNum(response.status)

\* C5: a non-2xx response whose body cannot be parsed as JSON rejects with
\* code "http_error", message "HTTP <status>", the response's status and no
\* details.
C5_UnparseableErrorBody ==
  (/\ pc = "done"
   /\ Responded
   /\ ~Ok(response.status)
   /\ net \in {"complete", "failed"}
   /\ (net = "failed" \/ ~JSONParse(response.body).ok)) =>
    outcome = Rejected(SchedulifyXError(JStr(HttpMessage(response.status)),
                                        JStr("http_error"),
                                        JNum(response.status),
                                        Undefined))

C5_Witness ==
  /\ pc = "done"
  /\ net = "complete"
  /\ response = [status |-> 404, body |-> BodyHtml]
  /\ Failed
  /\ outcome.error.code = JStr("http_error")

\* C6: every non-success response, whatever its body, rejects with the
\* server's status and with the body's error code or "http_error"; never
\* with code "network_error" or status 0.
C6_ErrorResponseKeepsStatus ==
  (pc = "done" /\ Responded /\ ~Ok(response.status)) =>
    /\ outcome.kind = "rejected"
    /\ outcome.error.status = JNum(response.status)
    /\ outcome.error.code \in {BodyErrorField("code"), JStr("http_error")}
    /\ outcome.error.code # JStr("network_error")
    /\ outcome.error.status # JNum(0)

\* C7: the origin of an error shows in it: ("timeout", 408) when and only
\* when the timer aborted the request; ("network_error", 0) when and only
\* when the exchange failed otherwise; an error made from a response has
\* the body's code or "http_error" and the server's status.
C7_OriginsDistinguishable ==
  (Failed /\ outcome.error.cls = "SchedulifyXError") =>
    /\ (outcome.error.code = JStr("timeout") /\ outcome.error.status = JNum(408))
         <=> (net = "aborted")
    /\ (outcome.error.code = JStr("network_error") /\ outcome.error.status = JNum(0))
         <=> (net = "failed" /\ ~Responded)
    /\ Responded =>
         /\ outcome.error.status = JNum(response.status)
         /\ outcome.error.code \in {BodyErrorField("code"), JStr("http_error")}

C9_SuccessBodyPassedThrough ==
  (/\ pc = "done"
   /\ Ok(response.status)
   /\ net = "complete"
   /\ JSONParse(response.body).ok) =>
    outcome = Resolved(JSONParse(response.body).value)

C9_Witness ==
  /\ pc = "done"
  /\ args.site = "posts.create"
  /\ response = [status |-> 200, body |-> BodyData]
  /\ outcome.kind = "resolved"
  /\ outcome.value = JObj(<< <<"data", JObj(<< <<"id", JStr("id1")>> >>)>> >>)

\* the string form of a query value, spelled out for the common values
TextOf(v) ==
  CASE v = JNum(0) -> "0"
    [] v = JNum(10) -> "10"
    [] v = JStr("") -> ""
    [] v = JStr("id1") -> "id1"
    [] OTHER -> String(v)

\* the query parameters of the URL of the request that was sent
SentQuery == ParseURL(sent[1].url).search

Occurrences(search, k) == Cardinality({i \in 1..Len(search) : search[i][1] = k})

\* C10: the URL holds a key exactly when the query map has a value other
\* than undefined for it, holds it once, and with the string form of the
\* value; queue.preview(accountId) without count sends accountId only.
C10_QueryParams ==
  (Len(sent) = 1 /\ args.queryParams # Undefined) =>
    LET pairs == args.queryParams.pairs IN
      /\ \A i \in 1..Len(pairs) :
           IF pairs[i][2] = Undefined
           THEN Occurrences(SentQuery, pairs[i][1]) = 0
           ELSE /\ Occurrences(SentQuery, pairs[i][1]) = 1
                /\ Lookup(SentQuery, pairs[i][1]) = TextOf(pairs[i][2])
      /\ \A j \in 1..Len(SentQuery) :
           /\ HasKey(pairs, SentQuery[j][1])
           /\ Lookup(pairs, SentQuery[j][1]) # Undefined
      /\ (args.site = "queue.preview" /\ Lookup(pairs, "count") = Undefined) =>
           \E a \in IdStrs : SentQuery = << <<"accountId", a>> >>

C10_Witness ==
  /\ pc = "fetching"
  /\ args = queue_preview(JStr("id1"), Undefined)
  /\ sent[1].url = <<"https:", "//", "api.schedulifyx.com", "/", "queue", "/",
                     "preview", "?", "accountId", "=", "id1">>

\* C11: a client made from a bare string has that string as apiKey and the
\* default baseUrl and timeout; a client made from a configuration record
\* has exactly the value of every field the record supplies, whatever it
\* is, and the default for every field it omits.
C11_ConstructorHonoursConfig ==
  /\ given.t = "str" =>
       /\ apiKey = given.s
       /\ baseUrl = <<"https:", "//", "api.schedulifyx.com">>
       /\ timeout = 30000
  /\ given.t = "obj" =>
       /\ apiKey = Lookup(given.pairs, "apiKey").s
       /\ baseUrl = (IF HasKey(given.pairs, "baseUrl")
                     THEN Lookup(given.pairs, "baseUrl").s
                     ELSE <<"https:", "//", "api.schedulifyx.com">>)
       /\ timeout = (IF HasKey(given.pairs, "timeout")
                     THEN Lookup(given.pairs, "timeout").n
                     ELSE 30000)

GivenKey == IF given.t = "str" THEN given.s ELSE Lookup(given.pairs, "apiKey").s

\* C13: every request the dispatcher hands to fetch carries the header
\* Authorization with the value "Bearer " followed by the configured API key
\* and the header Content-Type with the value application/json, whatever the
\* call-site, the verb, the body or the query.
C13_HeadersOnEveryRequest ==
  \A i \in 1..Len(sent) :
    /\ Occurrences(sent[i].headers, "Authorization") = 1
    /\ Lookup(sent[i].headers, "Authorization") = "Bearer " \o GivenKey
    /\ Occurrences(sent[i].headers, "Content-Type") = 1
    /\ Lookup(sent[i].headers, "Content-Type") = "application/json"

\* a GET request with query parameters and no body is in flight, the key
\* having been given in a configuration record
C13_Witness ==
  /\ Len(sent) = 1
  /\ given.t = "obj"
  /\ sent[1].method = "GET"
  /\ sent[1].body = Undefined
  /\ args.queryParams # Undefined
  /\ Lookup(sent[1].headers, "Authorization") = "Bearer sk_live_2"

\* the `data` member of the value media.getUploadUrl resolved with
UploadUrlData == Get(outcome.value, "data")

\* C14: media.upload first requests POST /media/upload-url with
\* { filename, contentType }; it hands a PUT to fetch only when that call has
\* resolved, at most one, to the uploadUrl of the call's value, with the
\* header Content-Type set to contentType and the file as body; when it
\* resolves, it resolves with the mediaUrl of the call's value; when the
\* first call rejects, there is no PUT and media.upload rejects with the
\* same error.
C14_UploadStepsInOrder ==
  upload.pc # "none" =>
    /\ Len(sent) >= 1 =>
         /\ sent[1].method = "POST"
         /\ ParseURL(sent[1].url).path = <<"/", "media", "/", "upload-url">>
         /\ ParseURL(sent[1].url).search = <<>>
         /\ sent[1].body = JStr("{\"filename\":\"" \o upload.filename
                                  \o "\",\"contentType\":\"" \o upload.contentType \o "\"}")
    /\ Len(upload.sent) <= 1
    /\ Len(upload.sent) = 1 =>
         /\ Len(sent) = 1
         /\ outcome.kind = "resolved"
         /\ upload.sent[1].method = "PUT"
         /\ upload.sent[1].url = Get(UploadUrlData, "uploadUrl")
         /\ upload.sent[1].headers = << <<"Content-Type", upload.contentType>> >>
         /\ upload.sent[1].body = upload.file
    /\ upload.outcome.kind = "resolved" =>
         /\ Len(upload.sent) = 1
         /\ upload.outcome.value = Get(UploadUrlData, "mediaUrl")
    /\ outcome.kind = "rejected" =>
         /\ upload.sent = <<>>
         /\ upload.pc = "done" => upload.outcome = outcome

\* media.upload of a video has resolved with the media URL the service named
C14_Witness ==
  /\ upload.pc = "done"
  /\ upload.contentType = "video/mp4"
  /\ Len(upload.sent) = 1
  /\ upload.sent[1].url = JStr("https://uploads.example.com/a.png?sig=1")
  /\ upload.outcome = Resolved(JStr("https://cdn.example.com/a.png"))

\* C15: media.upload resolves only when the upload target accepted the file:
\* once the PUT to the URL the service named has been answered with a status
\* outside 200..299, or has failed on the network, media.upload has rejected.
C15_PutFailurePropagates ==
  (upload.pc = "done" /\ Len(upload.sent) = 1 /\ upload.sent[1].url.t = "str") =>
    (upload.outcome.kind = "resolved" => upload.status \in 200..299)

\* C16: whatever media.upload rejects with, from the upload-URL request or
\* from the PUT, is a SchedulifyXError.
C16_UploadRejectsWithSchedulifyXError ==
  upload.outcome.kind = "rejected" => upload.outcome.error.cls = "SchedulifyXError"

\* the outcome the dispatcher gives a call that is alone on the client, from
\* what happened to the call's own exchange
AloneOutcomes(c) ==
  CASE c.pc = "done" /\ c.sent = <<>> -> {Rejected(InvalidUrlError)}
    [] c.pc = "done" /\ c.net = "aborted" -> {Rejected(Catch(AbortError))}
    [] c.pc = "done" /\ c.net = "failed" /\ c.response = NoResponse ->
         {Rejected(Catch(error)) : error \in NetworkErrors}
    [] c.pc = "done" /\ c.net \in {"complete", "failed"} /\ c.response # NoResponse ->
         {IF Ok(c.response.status)
          THEN ResultOf(c.net = "complete", c.response.body)
          ELSE ErrorOf(c.net = "complete", c.response.status, c.response.body)}
    [] OTHER -> {Pending}

\* call c has its own timer and controller: its exchange is aborted exactly
\* when its own timer has fired
OwnTimer(c) ==
  /\ c.aborted <=> c.timer = "fired"
  /\ c.net = "aborted" <=> c.timer = "fired"
  /\ c.timer # "unset" <=> Len(c.sent) = 1
  /\ c.pc = "done" => c.timer # "pending"

\* C17: calls issued side by side on one client do not interfere: a step of
\* one call leaves every other call as it was, a call is aborted by its own
\* timer only, and each call's outcome is the outcome the dispatcher gives a
\* lone call for the same request and the same answers of the server.
C17_ConcurrentCallsIndependent ==
  /\ [](\A i \in 1..NumCalls :
          /\ OwnTimer(calls[i])
          /\ calls[i].outcome \in AloneOutcomes(calls[i]))
  /\ [][\A i, j \in 1..NumCalls :
          (i # j /\ calls'[i] # calls[i]) => calls'[j] = calls[j]]_vars

\* call 1 has been aborted by its timer while call 2, with another request,
\* is still reading the body of its response with its timer cleared
C17_Witness ==
  /\ calls[1].outcome = Rejected(Catch(AbortError))
  /\ calls[1].timer = "fired"
  /\ calls[2].pc = "readingResult"
  /\ calls[2].timer = "cleared"
  /\ ~calls[2].aborted
  /\ calls[2].args # calls[1].args

\* the path of the URL of the request that was sent
SentPath == ParseURL(sent[1].url).path

\* the query of the request that was sent holds the members of params that
\* are not undefined, once each and in their string form, and nothing else
QueryIs(params) ==
  IF params = Undefined THEN SentQuery = <<>>
  ELSE /\ \A i \in 1..Len(params.pairs) :
            IF params.pairs[i][2] = Undefined
            THEN Occurrences(SentQuery, params.pairs[i][1]) = 0
            ELSE /\ Occurrences(SentQuery, params.pairs[i][1]) = 1
                 /\ Lookup(SentQuery, params.pairs[i][1]) = TextOf(params.pairs[i][2])
       /\ \A j \in 1..Len(SentQuery) : HasKey(params.pairs, SentQuery[j][1])

\* the request that was sent has this verb and path, the JSON text of data
\* as body (none when data is undefined) and the query of params
Wire(method, path, data, params) ==
  /\ sent[1].method = method
  /\ SentPath = path
  /\ sent[1].body = (IF data = Undefined THEN Undefined ELSE JStr(JSONStringify(data)))
  /\ QueryIs(params)

\* the promise the method returned is the dispatcher's: it has settled as
\* the dispatcher settles for the exchange of the request
DispatcherOutcome ==
  outcome \in AloneOutcomes([pc |-> pc, sent |-> sent, net |-> net, response |-> response])

\* C18: posts.list is GET /posts with params as the query, posts.get is GET
\* /posts/{id}, posts.create is POST /posts with data as JSON body,
\* posts.update is PATCH /posts/{id} with data as body, posts.delete is
\* DELETE /posts/{id}, posts.publish is POST /posts/{id}/publish; each
\* settles as the dispatcher did.
C18_PostsMapping ==
  /\ (Len(sent) = 1 /\ input.site = "posts.list") =>
       Wire("GET", <<"/", "posts">>, Undefined, input.params[1])
  /\ (Len(sent) = 1 /\ input.site = "posts.get") =>
       Wire("GET", <<"/", "posts", "/">> \o input.params[1], Undefined, Undefined)
  /\ (Len(sent) = 1 /\ input.site = "posts.create") =>
       /\ Wire("POST", <<"/", "posts">>, input.params[1], Undefined)
       /\ input.params[1] = PostData =>
            sent[1].body = JStr("{\"content\":\"hi\",\"accountIds\":[\"id1\"],\"publishNow\":true}")
  /\ (Len(sent) = 1 /\ input.site = "posts.update") =>
       Wire("PATCH", <<"/", "posts", "/">> \o input.params[1], input.params[2], Undefined)
  /\ (Len(sent) = 1 /\ input.site = "posts.delete") =>
       Wire("DELETE", <<"/", "posts", "/">> \o input.params[1], Undefined, Undefined)
  /\ (Len(sent) = 1 /\ input.site = "posts.publish") =>
       Wire("POST", <<"/", "posts", "/">> \o input.params[1] \o <<"/", "publish">>,
            Undefined, Undefined)
  /\ input.site \in {"posts.list", "posts.get", "posts.create", "posts.update",
                     "posts.delete", "posts.publish"} => DispatcherOutcome

\* posts.publish has sent its request and resolved with the body of the
\* answer
C18_Witness ==
  /\ input = [site |-> "posts.publish", params |-> << <<"id1">> >>]
  /\ Len(sent) = 1
  /\ sent[1].url = <<"https:", "//", "api.schedulifyx.com", "/", "posts", "/", "id1", "/", "publish">>
  /\ pc = "done"
  /\ outcome = Resolved(JObj(<< <<"data", JObj(<< <<"id", JStr("id1")>> >>)>> >>))

\* the params argument of the paginated list method that was called
PagingParams ==
  IF input.site = "webhooks.getEvents" THEN input.params[2] ELSE input.params[1]

\* the value the caller supplied for member k of params: undefined when
\* params or the member is omitted
Supplied(params, k) ==
  IF params = Undefined \/ ~HasKey(params.pairs, k) THEN Undefined
  ELSE Lookup(params.pairs, k)

\* C19: on posts.list, accounts.list, tenants.list and webhooks.getEvents a
\* limit or offset the caller supplies, 0 included, is in the URL of the
\* request once, under its own name and with its value; one the caller
\* omits is not in the URL.
C19_LimitOffsetInUrl ==
  (Len(sent) = 1
     /\ input.site \in {"posts.list", "accounts.list", "tenants.list", "webhooks.getEvents"}) =>
    \A k \in {"limit", "offset"} :
      IF Supplied(PagingParams, k) = Undefined
      THEN Occurrences(SentQuery, k) = 0
      ELSE /\ Occurrences(SentQuery, k) = 1
           /\ Lookup(SentQuery, k) = TextOf(Supplied(PagingParams, k))

\* tenants.list({ limit: 0, offset: 10 }) has sent ?limit=0&offset=10
C19_Witness ==
  /\ input.site = "tenants.list"
  /\ input.params[1] = JObj(<< <<"limit", JNum(0)>>, <<"offset", JNum(10)>> >>)
  /\ Len(sent) = 1
  /\ sent[1].url = <<"https:", "//", "api.schedulifyx.com", "/", "tenants", "?",
                     "limit", "=", "0", "&", "offset", "=", "10">>

C21_NeverCodeTimeout ==
  (Failed /\ Responded /\ outcome.error.cls = "SchedulifyXError") =>
    outcome.error.code # JStr("timeout")

\* C21: once the response headers have arrived the timer is cleared and
\* never fires, the request is never aborted, and the call rejects with the
\* code "timeout" only when the error object of the response body itself
\* carries that code.
C21_TimerCannotAbortAfterHeaders ==
  Responded =>
    /\ timer = "cleared"
    /\ ~aborted
    /\ net # "aborted"
    /\ (Failed /\ outcome.error.cls = "SchedulifyXError"
          /\ outcome.error.code = JStr("timeout")) =>
         /\ ~Ok(response.status)
         /\ BodyErrorField("code") = JStr("timeout")

\* a 408 response without a readable body has rejected the call with the
\* code "http_error", its timer cleared
C21_Witness ==
  /\ pc = "done"
  /\ Responded
  /\ response.status = 408
  /\ timer = "cleared"
  /\ net = "failed"
  /\ Failed
  /\ outcome.error.code = JStr("http_error")

RECURSIVE Text(_)
\* the string the tokens spell
Text(toks) == IF Len(toks) = 0 THEN "" ELSE Head(toks) \o Text(Tail(toks))

\* the endpoint is a path: it holds no "?", no "#" and no dot segment
PlainEndpoint(endpoint) ==
  \A i \in 1..Len(endpoint) : endpoint[i] \notin {"?", "#", ".", ".."}

\* the path the base URL is written with: what follows its host
BasePathText == Text(SubSeq(baseUrl, 4, Len(baseUrl)))

\* C22: the request goes to the plain concatenation of the base URL and the
\* endpoint path, followed by the query parameters: to the origin of the
\* base URL and to the path of the base URL followed by the endpoint path,
\* for base URLs with and without a path prefix and a trailing slash.
C22_TargetIsConcatenation ==
  (Len(sent) = 1 /\ PlainEndpoint(args.endpoint)) =>
    LET url == ParseURL(sent[1].url)
        q == FirstIn(sent[1].url, 1, {"?"})
    IN /\ Text(SubSeq(sent[1].url, 1, q - 1)) = Text(baseUrl) \o Text(args.endpoint)
       /\ url.scheme = ParseURL(baseUrl).scheme
       /\ url.host = ParseURL(baseUrl).host
       /\ Text(url.path) = BasePathText \o Text(args.endpoint)
       /\ url.hash = <<>>
       /\ QueryIs(args.queryParams)

\* posts.list({ limit: 0 }) on a client whose base URL has a path and a
\* trailing slash
C22_Witness ==
  /\ baseUrl = <<"http:", "//", "localhost:3000", "/", "api", "/", "v1", "/">>
  /\ input.site = "posts.list"
  /\ Len(sent) = 1
  /\ Text(sent[1].url) = "http://localhost:3000/api/v1//posts?limit=0"

\* C23: a call that started its request has its timer cleared, or fired,
\* when it settles: no settled call has a pending timer, a timer that fired
\* aborted the request, and the timer fires, and so aborts, only while
\* fetch has not settled.
C23_TimerClearedBeforeSettling ==
  /\ [](pc = "done" =>
          /\ timer # "pending"
          /\ Len(sent) = 1 => timer \in {"cleared", "fired"}
          /\ timer = "fired" <=> net = "aborted")
  /\ [][(timer # "fired" /\ timer' = "fired") => (pc = "fetching" /\ net = "inflight")]_vars

\* the network failed before any response and the call has settled with
\* its timer cleared
C23_Witness ==
  /\ pc = "done"
  /\ net = "failed"
  /\ ~Responded
  /\ Len(sent) = 1
  /\ timer = "cleared"

\* the four outcomes of a dispatcher call that started its request
ParsedResult == outcome.kind = "resolved" /\ net = "complete" /\ Ok(response.status)

ServerResponseError ==
  /\ outcome.kind = "rejected"
  /\ outcome.error.cls = "SchedulifyXError"
  /\ Responded
  /\ outcome.error.status = JNum(response.status)

TimeoutError ==
  /\ outcome.kind = "rejected"
  /\ outcome.error = SchedulifyXError(JStr("Request timeout"), JStr("timeout"), JNum(408), Undefined)
  /\ net = "aborted"

NetworkError ==
  /\ outcome.kind = "rejected"
  /\ outcome.error.cls = "SchedulifyXError"
  /\ outcome.error.code = JStr("network_error")
  /\ outcome.error.status = JNum(0)
  /\ ~Responded

\* C24: however the timer, the response and a network failure interleave, a
\* dispatcher call that started its request settles at most once, and with
\* exactly one of the parsed result, a server-response error, the timeout
\* error and the network error.
C24_SettlesOnceWithOneOfFour ==
  /\ []((pc = "done" /\ Len(sent) = 1) =>
          Cardinality({i \in 1..4 :
            <<ParsedResult, ServerResponseError, TimeoutError, NetworkError>>[i]}) = 1)
  /\ [][pc = "done" => (pc' = "done" /\ outcome' = outcome)]_vars

\* C25: the requests that carry the API key go to the origin of the
\* configured base URL; the PUT of media.upload has the one header
\* Content-Type, the caller's file as body and the URL the service named,
\* none of which holds the key, whatever that URL is.
C25_KeyOnlyToBaseUrl ==
  /\ \A i \in 1..Len(sent) :
       /\ ParseURL(sent[i].url).scheme = ParseURL(baseUrl).scheme
       /\ ParseURL(sent[i].url).host = ParseURL(baseUrl).host
  /\ \A i \in 1..Len(upload.sent) :
       /\ ~HasKey(upload.sent[i].headers, "Authorization")
       /\ \A j \in 1..Len(upload.sent[i].headers) :
            /\ upload.sent[i].headers[j][1] = "Content-Type"
            /\ upload.sent[i].headers[j][2] = input.params[3]
            /\ upload.sent[i].headers[j][2] \notin {GivenKey, "Bearer " \o GivenKey}
       /\ upload.sent[i].body = input.params[1]
       /\ upload.sent[i].url = Get(UploadUrlData, "uploadUrl")
       /\ upload.sent[i].url # JStr(GivenKey)

\* media.upload on a client made with the key sk_live_2 has sent its PUT to
\* the host of the API itself
C25_Witness ==
  /\ GivenKey = "sk_live_2"
  /\ Len(sent) = 1
  /\ Lookup(sent[1].headers, "Authorization") = "Bearer sk_live_2"
  /\ Len(upload.sent) = 1
  /\ upload.sent[1].url = JStr("https://api.schedulifyx.com/media/put/a.png")

\* C26: apiKey, baseUrl and timeout are what the constructor set them to
\* and no step of any call, resolved, rejected or timed out, changes them;
\* each call's request is built from them.
C26_ConfigurationFixed ==
  /\ [](/\ apiKey = Constructor(given).apiKey
        /\ baseUrl = Constructor(given).baseUrl
        /\ timeout = Constructor(given).timeout
        /\ \A i \in 1..NumCalls :
             Len(calls[i].sent) = 1 =>
               /\ Lookup(calls[i].sent[1].headers, "Authorization")
                    = "Bearer " \o Constructor(given).apiKey
               /\ ParseURL(calls[i].sent[1].url).host
                    = ParseURL(Constructor(given).baseUrl).host)
  /\ [][UNCHANGED <<apiKey, baseUrl, timeout>>]_vars

\* on the staging client one call has timed out, the other has resolved,
\* and the configuration is the constructor's
C26_Witness ==
  /\ timeout = 5000
  /\ baseUrl = <<"https:", "//", "staging.example.com">>
  /\ calls[1].pc = "done"
  /\ calls[1].timer = "fired"
  /\ calls[2].pc = "done"
  /\ calls[2].outcome.kind = "resolved"
  /\ ParseURL(calls[2].sent[1].url).host = "staging.example.com"

\* the path template of an id-taking method, "*" standing for a segment
\* that is an identifier; the empty sequence for the other methods
Template(site) ==
  CASE site \in {"posts.get", "posts.update", "posts.delete"} -> <<"/", "posts", "/", "*">>
    [] site = "posts.publish" -> <<"/", "posts", "/", "*", "/", "publish">>
    [] site = "accounts.get" -> <<"/", "accounts", "/", "*">>
    [] site \in {"webhooks.get", "webhooks.delete"} -> <<"/", "webhooks", "/", "*">>
    [] site = "webhooks.getEvents" -> <<"/", "webhooks", "/", "*", "/", "events">>
    [] site = "tenants.get" -> <<"/", "tenants", "/", "*">>
    [] site = "tenants.getConnectUrl" -> <<"/", "tenants", "/", "*", "/", "connect", "/", "*">>
    [] site = "tenants.disconnectAccount" -> <<"/", "tenants", "/", "*", "/", "accounts", "/", "*">>
    [] OTHER -> <<>>

\* the verb of an id-taking method
Verb(site) ==
  CASE site = "posts.update" -> "PATCH"
    [] site = "posts.publish" -> "POST"
    [] site \in {"posts.delete", "webhooks.delete", "tenants.disconnectAccount"} -> "DELETE"
    [] OTHER -> "GET"

\* C27: whatever the identifier strings are, the request of an id-taking
\* method has the method's verb, goes to the origin of the base URL, has the
\* path of the method's template with each identifier as one segment, no
\* fragment, and no query parameter but those the method passes itself.
C27_IdentifierStaysOneSegment ==
  (Len(sent) = 1 /\ Template(input.site) # <<>>) =>
    LET url == ParseURL(sent[1].url)
        actual == Segments(url.path, 1, <<>>)
        expected == Segments(SubSeq(baseUrl, 4, Len(baseUrl)) \o Template(input.site), 1, <<>>)
    IN /\ sent[1].method = Verb(input.site)
       /\ url.scheme = ParseURL(baseUrl).scheme
       /\ url.host = ParseURL(baseUrl).host
       /\ Len(actual) = Len(expected)
       /\ \A k \in 1..Len(expected) :
            IF expected[k] = "*" THEN actual[k] \notin {"", ".", ".."}
            ELSE k <= Len(actual) /\ actual[k] = expected[k]
       /\ url.hash = <<>>
       /\ QueryIs(IF input.site = "webhooks.getEvents" THEN input.params[2] ELSE Undefined)

\* the error object of the response body, when the body has one
BodyError == Get(JSONParse(response.body).value, "error")

\* the response body has an error object that lacks some of code, message
\* and details
PartialErrorBody ==
  /\ JSONParse(response.body).ok
  /\ JSONParse(response.body).value.t = "obj"
  /\ BodyError.t = "obj"
  /\ \E k \in {"code", "message", "details"} : ~HasKey(BodyError.pairs, k)

\* C28: for a non-2xx response whose error object has only some of the
\* fields, the rejected error has the body's message, code and details
\* where the body has them, "HTTP <status>", "http_error" and undefined
\* where it has not, each independently, and the response's status.
C28_PartialErrorFallbacks ==
  (pc = "done" /\ net = "complete" /\ ~Ok(response.status) /\ PartialErrorBody) =>
    /\ outcome.kind = "rejected"
    /\ outcome.error.cls = "SchedulifyXError"
    /\ outcome.error.message =
         (IF HasKey(BodyError.pairs, "message") THEN Lookup(BodyError.pairs, "message")
          ELSE JStr(HttpMessage(response.status)))
    /\ outcome.error.code =
         (IF HasKey(BodyError.pairs, "code") THEN Lookup(BodyError.pairs, "code")
          ELSE JStr("http_error"))
    /\ outcome.error.details =
         (IF HasKey(BodyError.pairs, "details") THEN Lookup(BodyError.pairs, "details")
          ELSE Undefined)
    /\ outcome.error.status = JNum(response.status)

\* C29: webhooks.test(webhookId, eventType) is POST /webhooks/{webhookId}/test
\* without query and with a JSON object as body: the object with the one
\* member eventType when the caller gave an eventType, the empty object
\* when it gave none.
C29_WebhookTestBody ==
  (Len(sent) = 1 /\ input.site = "webhooks.test") =>
    /\ sent[1].method = "POST"
    /\ SentPath = <<"/", "webhooks", "/">> \o input.params[1] \o <<"/", "test">>
    /\ QueryIs(Undefined)
    /\ sent[1].body =
         (IF input.params[2] = Undefined THEN JStr("{}")
          ELSE JStr("{\"eventType\":\"" \o input.params[2].s \o "\"}"))

\* webhooks.test('id1') without eventType has sent the body {}
C29_Witness ==
  /\ input = [site |-> "webhooks.test", params |-> << <<"id1">>, Undefined >>]
  /\ Len(sent) = 1
  /\ sent[1].method = "POST"
  /\ sent[1].body = JStr("{}")

====
